---- MODULE Spec2Model ----
(***************************************************************************)
(* Browser-side UI of two demo applications:                               *)
(*   - the BioLens image-to-3D-organelle viewer                            *)
(*       (src/BioLens/static/req.js), and                                  *)
(*   - the PDF question-answering page (src/unnamed/part_000).             *)
(* Each script runs on its own page.  JavaScript handlers run to           *)
(* completion.  An async handler is cut where it awaits its request: the   *)
(* continuation between `await fetch(...)` and `await response.json()`     *)
(* changes no state, so the two awaits are one step, taken when the        *)
(* request settles (a rejected fetch or a rejected json() both land in the *)
(* handler's catch block).                                                 *)
(***************************************************************************)
EXTENDS Integers, Sequences, FiniteSets, TLC

VARIABLES
    session,         \* which page / user activity this behaviour exercises
    \* ---- viewer page (src/BioLens/static/req.js) ----
    cameraAspect,    \* camera.aspect
    rendererSize,    \* size last given to renderer.setSize
    resizeTimers,    \* pending setTimeout callbacks of resizeViewer
    animationFrame,  \* a requestAnimationFrame(animate) callback is pending
    currentMesh,     \* the global currentMesh (rotation in thousandths of a radian)
    sceneMeshes,     \* ids of the organelle meshes attached to scene
    meshCount,       \* number of meshes constructed so far (fresh identities)
    organelleName,   \* argument of the latest update3DModel call
    currentAnalysis, \* the global currentAnalysis
    explorerShown,   \* #explorer and #report have display: block
    modelTitle,      \* #modelTitle innerText
    reportGrid,      \* #reportGrid innerHTML (one card per result)
    analyzeBtn,      \* #analyzeBtn: disabled, innerText, onclick bound
    analyzeInFlight, \* an uploadFiles invocation awaits /api/analyze
    lastAlert,       \* text of the last alert() shown
    tabContent,      \* #tabContent innerText
    \* ---- question-answering page (src/unnamed/part_000) ----
    questionInput,   \* questionInput.value
    askButton,       \* askButton: disabled, innerHTML
    status,          \* textContent and className of the three status elements
    clearTimers,     \* pending auto-hide timeouts of showStatus, per element
    answerContent,   \* answerContent.innerHTML
    sourcesContent,  \* sourcesContent.innerHTML
    confidenceContent, \* confidenceContent.innerHTML
    statsDetails,    \* statsDetails.innerHTML
    net,             \* requests awaiting their response, in issue order
    newestPending,   \* the most recently issued /ask request is still in flight
    newestShown      \* displayResults last rendered the response to the most
                     \* recently issued /ask request

viewerVars == <<cameraAspect, rendererSize, resizeTimers, animationFrame, currentMesh,
                sceneMeshes, meshCount, organelleName, currentAnalysis,
                explorerShown, modelTitle, reportGrid, analyzeBtn,
                analyzeInFlight, lastAlert, tabContent>>

askVars == <<newestPending, newestShown>>

qaVars == <<questionInput, askButton, status, clearTimers, answerContent,
            sourcesContent, confidenceContent, statsDetails, net, askVars>>

vars == <<session, viewerVars, qaVars>>

(***************************************************************************)
(* Bounds of the model.                                                    *)
(***************************************************************************)
MaxMeshes == 2       \* meshes constructed in one behaviour
MaxTimers == 1       \* resizeViewer timeouts pending at once
MaxDim == 1          \* container.clientWidth / clientHeight range over 0..MaxDim
MaxInFlight == 2     \* requests of the question-answering page in flight at once
MaxAnswers == 2      \* length of the answers and sources arrays of /ask
MaxStatusTimers == 1 \* auto-hide timeouts pending per status element
MaxTicks == 1        \* render ticks that rotate one mesh

(***************************************************************************)
(* JavaScript values.  A JSON object is a record; an absent field is a     *)
(* field outside the record's DOMAIN and reads as undefined.               *)
(***************************************************************************)
Undefined == [t |-> "undefined"]
Str(s) == [t |-> "string", s |-> s]
IsString(v) == v.t = "string"
Has(obj, f) == f \in DOMAIN obj
Get(obj, f) == IF Has(obj, f) THEN obj[f] ELSE Undefined

(***************************************************************************)
(* Strings: String.prototype.toLowerCase and String.prototype.includes.    *)
(***************************************************************************)
UpperCase == "ABCDEFGHIJKLMNOPQRSTUVWXYZ"
LowerCase == "abcdefghijklmnopqrstuvwxyz"

ToLowerChar(c) ==
    IF \E i \in 1..Len(UpperCase) : SubSeq(UpperCase, i, i) = c
    THEN LET i == CHOOSE j \in 1..Len(UpperCase) : SubSeq(UpperCase, j, j) = c
         IN  SubSeq(LowerCase, i, i)
    ELSE c

RECURSIVE toLowerCase(_)
toLowerCase(s) ==
    IF Len(s) = 0 THEN ""
    ELSE ToLowerChar(SubSeq(s, 1, 1)) \o toLowerCase(SubSeq(s, 2, Len(s)))

includes(s, k) ==
    \E i \in 1..(Len(s) - Len(k) + 1) : SubSeq(s, i, i + Len(k) - 1) = k

(***************************************************************************)
(* Viewer page: camera and renderer geometry.                              *)
(***************************************************************************)
Dims == 0..MaxDim

\* JavaScript number division w / h of two non-negative integers:
\* 0/0 is NaN, w/0 is Infinity, otherwise the ratio n/d.
Div(w, h) ==
    IF h = 0
    THEN IF w = 0 THEN [kind |-> "NaN", n |-> 0, d |-> 0]
                  ELSE [kind |-> "Infinity", n |-> w, d |-> 0]
    ELSE [kind |-> "finite", n |-> w, d |-> h]

\* initThreeJS: the camera and the renderer are created from the container's
\* dimensions at DOMContentLoaded.
InitThreeJS(w, h) ==
    /\ cameraAspect = Div(w, h)
    /\ rendererSize = <<w, h>>
    /\ resizeTimers = 0
    /\ animationFrame = TRUE
    /\ sceneMeshes = {}
    /\ meshCount = 0

\* animate(): schedules the next frame first, then rotates the current mesh,
\* attached to the scene or not, by 0.005 (y) and 0.002 (x).
Rotated(mesh) ==
    [mesh EXCEPT !.rotation = [x |-> @.x + 2, y |-> @.y + 5]]

\* The window 'resize' listener registered by initThreeJS.
OnWindowResize(w, h) ==
    /\ cameraAspect' = Div(w, h)
    /\ rendererSize' = <<w, h>>

\* The body of the setTimeout callback of resizeViewer.
ResizeCallback(w, h) ==
    IF w = 0 \/ h = 0
    THEN UNCHANGED <<cameraAspect, rendererSize>>
    ELSE /\ cameraAspect' = Div(w, h)
         /\ rendererSize' = <<w, h>>

(***************************************************************************)
(* Viewer page: update3DModel.                                             *)
(***************************************************************************)
\* let currentMesh = null, as a mesh of no identity.
NoMesh == [id |-> 0, recipe |-> "none", glow |-> FALSE, rotation |-> [x |-> 0, y |-> 0]]

\* selectRecipe with the membrane and wall branches in the opposite order.
selectRecipe_WallFirst(name) ==
    IF includes(name, "mitochondria") THEN "mitochondria"
    ELSE IF includes(name, "chloroplast") THEN "chloroplast"
    ELSE IF includes(name, "ribosome") THEN "ribosome"
    ELSE IF includes(name, "endoplasmic") \/ includes(name, "er") THEN "er"
    ELSE IF includes(name, "golgi") THEN "golgi"
    ELSE IF includes(name, "lysosome") THEN "lysosome"
    ELSE IF includes(name, "wall") THEN "wall"
    ELSE IF includes(name, "membrane") THEN "membrane"
    ELSE "nucleus"

\* The if / else-if chain of update3DModel over the lower-cased name.
selectRecipe(name) ==
    IF includes(name, "mitochondria") THEN "mitochondria"
    ELSE IF includes(name, "chloroplast") THEN "chloroplast"
    ELSE IF includes(name, "ribosome") THEN "ribosome"
    ELSE IF includes(name, "endoplasmic") \/ includes(name, "er") THEN "er"
    ELSE IF includes(name, "golgi") THEN "golgi"
    ELSE IF includes(name, "lysosome") THEN "lysosome"
    ELSE IF includes(name, "membrane") THEN "membrane"
    ELSE IF includes(name, "wall") THEN "wall"
    ELSE "nucleus"

\* The guard of the common glow block.
addsGlow(name) == ~includes(name, "wall")

\* update3DModel without its scene.remove.
SceneAfterRemove_Kept == sceneMeshes

\* if (currentMesh) scene.remove(currentMesh);
SceneAfterRemove ==
    IF currentMesh.id # 0 THEN sceneMeshes \ {currentMesh.id} ELSE sceneMeshes

\* The mesh update3DModel constructs for a string argument.
BuildMesh(arg) ==
    LET name == toLowerCase(arg.s)
    IN  [id |-> meshCount + 1,
         recipe |-> selectRecipe(name),
         glow |-> addsGlow(name),
         rotation |-> [x |-> 0, y |-> 0]]

\* organelleName.toLowerCase() raises a TypeError on a non-string argument,
\* after the old mesh was removed and before currentMesh is reassigned.
update3DModelThrows(arg) == ~IsString(arg)

update3DModel(arg) ==
    /\ organelleName' = arg
    /\ IF update3DModelThrows(arg)
       THEN /\ sceneMeshes' = SceneAfterRemove
            /\ UNCHANGED <<currentMesh, meshCount>>
       ELSE /\ currentMesh' = BuildMesh(arg)
            /\ sceneMeshes' = SceneAfterRemove \cup {BuildMesh(arg).id}
            /\ meshCount' = meshCount + 1

(***************************************************************************)
(* Viewer page: /api/analyze responses and handleAnalysisResult.           *)
(***************************************************************************)
\* Organelle names the backend reports in the viewer session.
ViewerNames == {"Golgi", "Cell Wall", "Cell Membrane and Wall"}

Organelle(n) == [name |-> Str(n), function |-> Str("function of " \o n)]

\* One element of data.results; confidence is in hundredths.
AnalysisResults ==
    {[filename |-> "a.png", organelle |-> Organelle(n),
      detected_text |-> <<"label">>, confidence |-> 90] : n \in ViewerNames}
    \cup {[filename |-> "a.png", organelle |-> Organelle(n),
           confidence |-> 90] : n \in {"Golgi"}}
    \cup {[filename |-> "a.png", detected_text |-> <<"label">>, confidence |-> 90],
          [filename |-> "a.png", organelle |-> [function |-> Str("f")],
           detected_text |-> <<"label">>, confidence |-> 90]}

WellFormedResult(res) == Has(res, "organelle") /\ Has(res, "detected_text")

BackendErrors == {"db down", "bad input"}

\* Parsed JSON bodies of /api/analyze.
AnalysisBodies ==
    {[error |-> e] : e \in BackendErrors}
    \cup {[results |-> <<>>]}
    \cup {[results |-> <<a>>] : a \in AnalysisResults}
    \cup {[results |-> <<a, b>>] : a \in AnalysisResults,
                                   b \in {r \in AnalysisResults :
                                            ~Has(r, "organelle")
                                            \/ (Has(r.organelle, "name")
                                                /\ r.organelle.name = Str("Golgi"))}}

\* if (!data.results || data.results.length === 0) return;
ReturnsEarly(data) == ~Has(data, "results") \/ Len(data.results) = 0

\* One report card of generateReports.
ReportCard(res) ==
    [filename |-> res.filename,
     detected |-> Get(res.organelle, "name"),
     ocr |-> res.detected_text,
     percent |-> res.confidence]

\* res.organelle.name and res.detected_text.join raise a TypeError when the
\* organelle or the detected_text of some result is undefined.
generateReportsThrows(results) ==
    \E i \in 1..Len(results) : ~WellFormedResult(results[i])

generateReports(results) == [i \in 1..Len(results) |-> ReportCard(results[i])]

\* Where handleAnalysisResult stops: "return" (early return), "title"
\* (mainResult.organelle.name of an undefined organelle), "model"
\* (update3DModel raised), "reports" (generateReports raised), "none".
StopsAt(data) ==
    IF ReturnsEarly(data) THEN "return"
    ELSE IF ~Has(data.results[1], "organelle") THEN "title"
    ELSE IF update3DModelThrows(Get(data.results[1].organelle, "name")) THEN "model"
    ELSE IF generateReportsThrows(data.results) THEN "reports"
    ELSE "none"

handleAnalysisResultThrows(data) == StopsAt(data) \in {"title", "model", "reports"}

handleAnalysisResult(data) ==
    LET stop == StopsAt(data)
        mainResult == data.results[1]
    IN  IF stop = "return"
        THEN UNCHANGED <<currentAnalysis, explorerShown, resizeTimers, modelTitle,
                         tabContent, organelleName, currentMesh, sceneMeshes,
                         meshCount, reportGrid>>
        ELSE /\ currentAnalysis' = mainResult
             /\ explorerShown' = TRUE
             /\ resizeTimers' = resizeTimers + 1
             /\ IF stop = "title"
                THEN UNCHANGED <<modelTitle, tabContent, organelleName,
                                 currentMesh, sceneMeshes, meshCount, reportGrid>>
                ELSE /\ modelTitle' = Get(mainResult.organelle, "name")
                     /\ tabContent' = Get(mainResult.organelle, "function")
                     /\ update3DModel(Get(mainResult.organelle, "name"))
                     /\ IF stop = "none"
                        THEN reportGrid' = generateReports(data.results)
                        ELSE UNCHANGED reportGrid

(***************************************************************************)
(* Viewer page: the handlers.                                              *)
(***************************************************************************)
AnalysisFailedAlert == "An error occurred during analysis."

\* handleFiles: a drop or a file selection binds analyzeBtn.onclick.
HandleFiles ==
    /\ session = "viewer"
    /\ analyzeBtn' = [analyzeBtn EXCEPT !.bound = TRUE]
    /\ UNCHANGED <<session, qaVars, animationFrame, cameraAspect, rendererSize, resizeTimers, currentMesh,
                   sceneMeshes, meshCount, organelleName, currentAnalysis,
                   explorerShown, modelTitle, reportGrid, analyzeInFlight, lastAlert,
                   tabContent>>

\* uploadFiles up to its first await; a disabled button receives no click.
UploadFiles ==
    /\ session = "viewer"
    /\ analyzeBtn.bound /\ ~analyzeBtn.disabled
    /\ meshCount < MaxMeshes
    /\ resizeTimers < MaxTimers
    /\ analyzeBtn' = [analyzeBtn EXCEPT !.disabled = TRUE, !.text = "Analyzing..."]
    /\ analyzeInFlight' = TRUE
    /\ UNCHANGED <<session, qaVars, animationFrame, cameraAspect, rendererSize, resizeTimers, currentMesh,
                   sceneMeshes, meshCount, organelleName, currentAnalysis,
                   explorerShown, modelTitle, reportGrid, lastAlert, tabContent>>

\* The finally block of uploadFiles.
uploadFilesFinally ==
    /\ analyzeBtn' = [analyzeBtn EXCEPT !.disabled = FALSE, !.text = "Analyze Images"]
    /\ analyzeInFlight' = FALSE

\* The catch block of uploadFiles.
uploadFilesCatch == lastAlert' = AnalysisFailedAlert

\* fetch rejects (transport failure) or response.json() rejects (malformed
\* body): catch, then finally.
AnalyzeFails ==
    /\ session = "viewer"
    /\ analyzeInFlight
    /\ uploadFilesCatch
    /\ uploadFilesFinally
    /\ UNCHANGED <<session, qaVars, animationFrame, cameraAspect, rendererSize, resizeTimers, currentMesh,
                   sceneMeshes, meshCount, organelleName, currentAnalysis,
                   explorerShown, modelTitle, reportGrid, tabContent>>

\* response.json() resolves with data: handleAnalysisResult(data), the catch
\* block when it raised, then finally.
AnalyzeResolves(data) ==
    /\ session = "viewer"
    /\ analyzeInFlight
    /\ handleAnalysisResult(data)
    /\ IF handleAnalysisResultThrows(data)
       THEN uploadFilesCatch
       ELSE UNCHANGED lastAlert
    /\ uploadFilesFinally
    /\ UNCHANGED <<session, qaVars, animationFrame, cameraAspect, rendererSize>>

\* The window fires 'resize' while the container measures w x h.
WindowResize(w, h) ==
    /\ session = "viewer"
    /\ OnWindowResize(w, h)
    /\ UNCHANGED <<session, qaVars, animationFrame, resizeTimers, currentMesh, sceneMeshes, meshCount,
                   organelleName, currentAnalysis, explorerShown, modelTitle,
                   reportGrid, analyzeBtn, analyzeInFlight, lastAlert, tabContent>>

\* A timeout set by resizeViewer fires while the container measures w x h.
ResizeTimerFires(w, h) ==
    /\ session = "viewer"
    /\ resizeTimers > 0
    /\ resizeTimers' = resizeTimers - 1
    /\ ResizeCallback(w, h)
    /\ UNCHANGED <<session, qaVars, animationFrame, currentMesh, sceneMeshes, meshCount, organelleName,
                   currentAnalysis, explorerShown, modelTitle, reportGrid,
                   analyzeBtn, analyzeInFlight, lastAlert, tabContent>>

\* A display refresh runs the pending animate callback.
Animate ==
    /\ session = "viewer"
    /\ animationFrame
    /\ currentMesh.id # 0 => currentMesh.rotation.y < 5 * MaxTicks
    /\ animationFrame' = TRUE
    /\ currentMesh' = IF currentMesh.id # 0 THEN Rotated(currentMesh) ELSE currentMesh
    /\ UNCHANGED <<session, qaVars, cameraAspect, rendererSize, resizeTimers,
                   sceneMeshes, meshCount, organelleName, currentAnalysis,
                   explorerShown, modelTitle, reportGrid, analyzeBtn,
                   analyzeInFlight, lastAlert, tabContent>>

\* The page after DOMContentLoaded, the container measuring w x h.
ViewerInitAt(w, h) ==
    /\ InitThreeJS(w, h)
    /\ currentMesh = NoMesh
    /\ organelleName = Undefined
    /\ currentAnalysis = [t |-> "null"]
    /\ explorerShown = FALSE
    /\ modelTitle = Undefined
    /\ tabContent = Undefined
    /\ reportGrid = <<>>
    /\ analyzeBtn = [disabled |-> FALSE, text |-> "Analyze Images", bound |-> FALSE]
    /\ analyzeInFlight = FALSE
    /\ lastAlert = ""

ViewerInit == \E w \in Dims, h \in Dims : ViewerInitAt(w, h)

ViewerNext ==
    \/ HandleFiles
    \/ UploadFiles
    \/ AnalyzeFails
    \/ \E data \in AnalysisBodies : AnalyzeResolves(data)
    \/ \E w \in Dims, h \in Dims : WindowResize(w, h)
    \/ \E w \in Dims, h \in Dims : ResizeTimerFires(w, h)
    \/ Animate

(***************************************************************************)
(* Question-answering page: values and rendering helpers.                  *)
(***************************************************************************)
EmptyObject == [f \in {} |-> ""]

\* `${obj.f}` of a string field and of a number field.
ShowText(obj, f) == IF Has(obj, f) THEN obj[f] ELSE "undefined"
ShowNumber(obj, f) == IF Has(obj, f) THEN ToString(obj[f]) ELSE "undefined"

\* error.message of the TypeError a read of a property of undefined raises.
TypeErrorMessage(f) ==
    "Cannot read properties of undefined (reading '" \o f \o "')"

TransportErrors == {"Failed to fetch", "Unexpected token < in JSON at position 0"}

\* String.prototype.trim, over the space character.
RECURSIVE trimStart(_)
trimStart(s) ==
    IF Len(s) > 0 /\ SubSeq(s, 1, 1) = " " THEN trimStart(SubSeq(s, 2, Len(s)))
    ELSE s

RECURSIVE trimEnd(_)
trimEnd(s) ==
    IF Len(s) > 0 /\ SubSeq(s, Len(s), Len(s)) = " "
    THEN trimEnd(SubSeq(s, 1, Len(s) - 1))
    ELSE s

trim(s) == trimEnd(trimStart(s))

StatusElements == {"uploadStatus", "queryStatus", "actionStatus"}

\* showStatus(element, message, type): the message and class, and for a
\* success message one more pending auto-hide timeout on that element.
showStatus(element, message, type) ==
    /\ status' = [status EXCEPT ![element] =
                     [text |-> message, cls |-> "status-" \o type]]
    /\ clearTimers' = IF type = "success"
                      THEN [clearTimers EXCEPT ![element] = @ + 1]
                      ELSE clearTimers

\* The callback of showStatus's setTimeout.
StatusTimerFires(element) ==
    /\ session \in {"query", "library"}
    /\ clearTimers[element] > 0
    /\ clearTimers' = [clearTimers EXCEPT ![element] = @ - 1]
    /\ status' = [status EXCEPT ![element] = [text |-> "", cls |-> ""]]
    /\ UNCHANGED <<session, viewerVars, askVars, questionInput, askButton, answerContent,
                   sourcesContent, confidenceContent, statsDetails, net>>

\* net without its i-th request.
Settled(i) == SubSeq(net, 1, i - 1) \o SubSeq(net, i + 1, Len(net))

\* The i-th request is the most recently issued /ask request: requests are
\* kept in issue order, so it is the last /ask in flight, provided the most
\* recently issued one has not resolved already.
IsNewestAsk(i) ==
    /\ newestPending
    /\ net[i] = "ask"
    /\ \A j \in (i + 1)..Len(net) : net[j] # "ask"

(***************************************************************************)
(* Question-answering page: /ask.                                          *)
(***************************************************************************)
ChunkTypes == <<"concept", "question", "application">>

AnswerText(i) == "answer " \o ToString(i)

SourceEntry(i) ==
    [source |-> "biology.pdf", author |-> "Campbell",
     chunk_type |-> ChunkTypes[((i - 1) % 3) + 1],
     keywords |-> "cell", position |-> i - 1]

\* confidence_scores[i], in thousandths.
ScoreOf(i) == 900 - 250 * ((i - 1) % 4)

Answers(n) == [i \in 1..n |-> AnswerText(i)]
Sources(m) == [i \in 1..m |-> SourceEntry(i)]
Scores(n) == [i \in 1..n |-> ScoreOf(i)]

BackendError == "Database unavailable"

\* Parsed JSON bodies of /ask: the wire shape with every length of answers
\* and sources, bodies with a field missing, and the error shape.
AskBodies ==
    {[answers |-> Answers(n), sources |-> Sources(m),
      confidence_scores |-> Scores(n)] : n \in 0..MaxAnswers, m \in 0..MaxAnswers}
    \cup {[answers |-> Answers(n), confidence_scores |-> Scores(n)] : n \in 0..1}
    \cup {[answers |-> Answers(1), sources |-> <<[source |-> "biology.pdf"]>>]}
    \cup {[error |-> BackendError], EmptyObject}

\* Bodies a non-2xx response of any endpoint carries.
FailureBodies == {[error |-> BackendError], EmptyObject}

Placeholder(text) == [placeholder |-> text, items |-> <<>>]
Items(items) == [placeholder |-> "", items |-> items]

\* result.answers && result.answers.length > 0, and likewise.
NonEmpty(result, f) == Has(result, f) /\ Len(result[f]) > 0

\* result.sources[index]?.chunk_type without the || 'unknown' default.
AnswerType_NoDefault(result, i) ==
    IF i <= Len(result.sources) /\ Has(result.sources[i], "chunk_type")
    THEN result.sources[i].chunk_type
    ELSE "undefined"

\* result.sources[index]?.chunk_type || 'unknown'
AnswerType(result, i) ==
    IF i <= Len(result.sources) /\ Has(result.sources[i], "chunk_type")
    THEN result.sources[i].chunk_type
    ELSE "unknown"

AnswerItem(result, i) ==
    [answer |-> result.answers[i], label |-> "Result " \o ToString(i),
     type |-> AnswerType(result, i)]

\* result.sources[index] of an undefined result.sources raises a TypeError
\* inside the map callback, before answerContent.innerHTML is assigned.
displayResultsThrows(result) == NonEmpty(result, "answers") /\ ~Has(result, "sources")

renderAnswers(result) ==
    IF NonEmpty(result, "answers")
    THEN Items([i \in 1..Len(result.answers) |-> AnswerItem(result, i)])
    ELSE Placeholder("No answers found")

SourceItem(source) ==
    [title |-> IF Has(source, "source") THEN source.source ELSE "Unknown Source",
     author |-> IF Has(source, "author") THEN source.author ELSE "Unknown",
     type |-> ShowText(source, "chunk_type"),
     keywords |-> IF Has(source, "keywords") THEN source.keywords ELSE "None",
     position |-> IF Has(source, "position")
                  THEN "Chunk " \o ToString(source.position + 1)
                  ELSE "Chunk NaN"]

renderSources(result) ==
    IF NonEmpty(result, "sources")
    THEN Items([i \in 1..Len(result.sources) |-> SourceItem(result.sources[i])])
    ELSE Placeholder("No source information available")

\* (score * 100).toFixed(1) + '%' of a score given in thousandths.
Percent(score) == ToString(score \div 10) \o "." \o ToString(score % 10) \o "%"

ConfidenceItem(score, i) ==
    [label |-> "Result " \o ToString(i),
     cls |-> IF score >= 700 THEN "high" ELSE IF score >= 500 THEN "medium" ELSE "low",
     percent |-> Percent(score)]

renderConfidence(result) ==
    IF NonEmpty(result, "confidence_scores")
    THEN Items([i \in 1..Len(result.confidence_scores) |->
                   ConfidenceItem(result.confidence_scores[i], i)])
    ELSE Placeholder("No confidence scores available")

displayResults(result) ==
    IF displayResultsThrows(result)
    THEN UNCHANGED <<answerContent, sourcesContent, confidenceContent>>
    ELSE /\ answerContent' = renderAnswers(result)
         /\ sourcesContent' = renderSources(result)
         /\ confidenceContent' = renderConfidence(result)

Questions == {" ", " What is ATP? "}

\* The user edits the question box.
TypeQuestion(q) ==
    /\ session = "query"
    /\ questionInput' = q
    /\ UNCHANGED <<session, viewerVars, askVars, askButton, status, clearTimers,
                   answerContent, sourcesContent, confidenceContent,
                   statsDetails, net>>

\* askQuestion without the statements that disable the button.
askQuestionReading_NoDisable(value) ==
    IF trim(value) = ""
    THEN /\ showStatus("queryStatus", "Please enter a question", "error")
         /\ UNCHANGED <<askButton, net, askVars>>
    ELSE /\ Len(net) < MaxInFlight
         /\ UNCHANGED askButton
         /\ showStatus("queryStatus", "Searching for relevant information...", "info")
         /\ net' = Append(net, "ask")
         /\ newestPending' = TRUE
         /\ newestShown' = FALSE

\* askQuestion up to its await, questionInput.value reading value.
askQuestionReading(value) ==
    IF trim(value) = ""
    THEN /\ showStatus("queryStatus", "Please enter a question", "error")
         /\ UNCHANGED <<askButton, net, askVars>>
    ELSE /\ Len(net) < MaxInFlight
         /\ askButton' = [disabled |-> TRUE, html |-> "Searching..."]
         /\ showStatus("queryStatus", "Searching for relevant information...", "info")
         /\ net' = Append(net, "ask")
         /\ newestPending' = TRUE
         /\ newestShown' = FALSE

askQuestion == askQuestionReading(questionInput)

\* The Ask button is clicked; a disabled button receives no click.
ClickAsk ==
    /\ session = "query"
    /\ ~askButton.disabled
    /\ askQuestion
    /\ UNCHANGED <<session, viewerVars, questionInput, answerContent,
                   sourcesContent, confidenceContent, statsDetails>>

\* The keypress listener of setupQueryEvents, for the Enter key.
PressEnter ==
    /\ session = "query"
    /\ askQuestion
    /\ UNCHANGED <<session, viewerVars, questionInput, answerContent,
                   sourcesContent, confidenceContent, statsDetails>>

\* One of the sampleQuestions.
SampleQuestions == {"What is photosynthesis?"}

\* setQuestion(question): fills the question box and calls askQuestion.
SetQuestion(question) ==
    /\ session = "query"
    /\ questionInput' = question
    /\ askQuestionReading(question)
    /\ UNCHANGED <<session, viewerVars, answerContent, sourcesContent,
                   confidenceContent, statsDetails>>

\* askQuestion re-enabling the button on the success path only.
askQuestionFinally_Missing == UNCHANGED askButton

\* The finally block of askQuestion.
askQuestionFinally == askButton' = [disabled |-> FALSE, html |-> "Ask"]

\* The message the catch block of askQuestion shows for a 2xx body.
AskRenderError(result) ==
    IF displayResultsThrows(result) THEN TypeErrorMessage("0")
    ELSE TypeErrorMessage("length")

\* The i-th request is an /ask whose fetch or json() rejects.
AskFails(i, message) ==
    /\ session = "query"
    /\ i \in 1..Len(net) /\ net[i] = "ask"
    /\ net' = Settled(i)
    /\ newestPending' = (newestPending /\ ~IsNewestAsk(i))
    /\ UNCHANGED newestShown
    /\ showStatus("queryStatus", "Search failed: " \o message, "error")
    /\ askQuestionFinally
    /\ UNCHANGED <<session, viewerVars, questionInput, answerContent,
                   sourcesContent, confidenceContent, statsDetails>>

\* The i-th request is an /ask that settles with status ok and body result.
AskResolves(i, ok, result) ==
    /\ session = "query"
    /\ i \in 1..Len(net) /\ net[i] = "ask"
    /\ net' = Settled(i)
    /\ newestPending' = (newestPending /\ ~IsNewestAsk(i))
    /\ newestShown' = IF ok /\ ~displayResultsThrows(result)
                      THEN IsNewestAsk(i)
                      ELSE newestShown
    /\ IF ok
       THEN /\ displayResults(result)
            /\ IF displayResultsThrows(result) \/ ~Has(result, "answers")
               THEN showStatus("queryStatus",
                               "Search failed: " \o AskRenderError(result), "error")
               ELSE /\ clearTimers["queryStatus"] < MaxStatusTimers
                    /\ showStatus("queryStatus",
                                  "Found " \o ToString(Len(result.answers))
                                     \o " relevant results", "success")
       ELSE /\ showStatus("queryStatus", "Error: " \o ShowText(result, "error"), "error")
            /\ UNCHANGED <<answerContent, sourcesContent, confidenceContent>>
    /\ askQuestionFinally
    /\ UNCHANGED <<session, viewerVars, questionInput, statsDetails>>

(***************************************************************************)
(* Question-answering page: /stats.                                        *)
(***************************************************************************)
FullStats ==
    [total_chunks |-> 5,
     chunk_type_distribution |-> [concept |-> 2, question |-> 2, application |-> 1],
     source_distribution |-> [biology |-> 3, botany |-> 2]]

\* Parsed JSON bodies of a 2xx /stats.
StatsBodies ==
    {FullStats,
     [total_chunks |-> 5, chunk_type_distribution |-> EmptyObject,
      source_distribution |-> [biology |-> 5]],
     [total_chunks |-> 5, source_distribution |-> [biology |-> 5]],
     [chunk_type_distribution |-> [concept |-> 2]],
     EmptyObject,
     [error |-> BackendError]}

\* `${obj.f}`: the field without the || 0 default.
OrZero_NoDefault(obj, f) == IF Has(obj, f) THEN ToString(obj[f]) ELSE "undefined"

\* `${obj.f || 0}` of a number field.
OrZero(obj, f) == IF Has(obj, f) /\ obj[f] # 0 THEN ToString(obj[f]) ELSE "0"

\* stats.f || {}
OrEmptyObject(obj, f) == IF Has(obj, f) THEN obj[f] ELSE EmptyObject

StatsPlaceholder(text) ==
    [placeholder |-> text, total |-> "", concept |-> "", question |-> "",
     application |-> "", sources |-> ""]

displayStats(stats) ==
    IF Has(stats, "error")
    THEN StatsPlaceholder("Error loading statistics")
    ELSE LET chunkTypeDist == OrEmptyObject(stats, "chunk_type_distribution")
             sourceDist == OrEmptyObject(stats, "source_distribution")
         IN  [placeholder |-> "",
              total |-> OrZero(stats, "total_chunks"),
              concept |-> OrZero(chunkTypeDist, "concept"),
              question |-> OrZero(chunkTypeDist, "question"),
              application |-> OrZero(chunkTypeDist, "application"),
              sources |-> ToString(Cardinality(DOMAIN sourceDist))]

\* loadStats up to its await, on the request list r.
loadStats(r) == Append(r, "stats")

\* The i-th request is a /stats whose fetch or json() rejects, or that
\* settles with a non-2xx status: console.error only.
StatsFails(i) ==
    /\ session \in {"query", "library"}
    /\ i \in 1..Len(net) /\ net[i] = "stats"
    /\ net' = Settled(i)
    /\ UNCHANGED <<session, viewerVars, askVars, questionInput, askButton, status,
                   clearTimers, answerContent, sourcesContent, confidenceContent,
                   statsDetails>>

\* The i-th request is a /stats that settles with a 2xx status and body stats.
StatsResolves(i, stats) ==
    /\ session \in {"query", "library"}
    /\ i \in 1..Len(net) /\ net[i] = "stats"
    /\ net' = Settled(i)
    /\ statsDetails' = displayStats(stats)
    /\ UNCHANGED <<session, viewerVars, askVars, questionInput, askButton, status,
                   clearTimers, answerContent, sourcesContent, confidenceContent>>

(***************************************************************************)
(* Question-answering page: /upload.                                       *)
(***************************************************************************)
MaxFileSize == 50 * 1024 * 1024

Files ==
    [type : {"application/pdf", "image/png"},
     size : {1024, MaxFileSize, MaxFileSize + 1}]

\* Parsed JSON bodies of a 2xx /upload.
UploadBodies ==
    {[chunks_created |-> 5,
      chunk_types |-> [concept |-> 2, question |-> 2, application |-> 1]],
     [chunks_created |-> 5],
     [error |-> BackendError],
     EmptyObject}

\* result.chunk_types.concept of an undefined chunk_types raises a TypeError.
uploadMessageThrows(result) == ~Has(result, "chunk_types")

UploadSuccessMessage(result) ==
    "Successfully processed: " \o ShowNumber(result, "chunks_created")
       \o " chunks created (" \o ShowNumber(result.chunk_types, "concept")
       \o " concepts, " \o ShowNumber(result.chunk_types, "question")
       \o " questions, " \o ShowNumber(result.chunk_types, "application")
       \o " applications)"

\* handleFile without its size validation.
handleFile_NoSizeCheck(file) ==
    IF file.type # "application/pdf"
    THEN /\ showStatus("uploadStatus", "Please select a PDF file", "error")
         /\ UNCHANGED net
    ELSE /\ Len(net) < MaxInFlight
         /\ showStatus("uploadStatus", "Uploading and processing PDF...", "info")
         /\ net' = Append(net, "upload")

\* handleFile up to its await: the two validations, then the request.
handleFile(file) ==
    IF file.type # "application/pdf"
    THEN /\ showStatus("uploadStatus", "Please select a PDF file", "error")
         /\ UNCHANGED net
    ELSE IF file.size > 50 * 1024 * 1024
    THEN /\ showStatus("uploadStatus", "File size must be less than 50MB", "error")
         /\ UNCHANGED net
    ELSE /\ Len(net) < MaxInFlight
         /\ showStatus("uploadStatus", "Uploading and processing PDF...", "info")
         /\ net' = Append(net, "upload")

\* A file is selected or dropped: handleFileSelect / the drop listener.
SelectFile(file) ==
    /\ session = "library"
    /\ handleFile(file)
    /\ UNCHANGED <<session, viewerVars, askVars, questionInput, askButton, answerContent,
                   sourcesContent, confidenceContent, statsDetails>>

\* The i-th request is an /upload whose fetch or json() rejects.
UploadFails(i, message) ==
    /\ session = "library"
    /\ i \in 1..Len(net) /\ net[i] = "upload"
    /\ net' = Settled(i)
    /\ showStatus("uploadStatus", "Upload failed: " \o message, "error")
    /\ UNCHANGED <<session, viewerVars, askVars, questionInput, askButton, answerContent,
                   sourcesContent, confidenceContent, statsDetails>>

\* The i-th request is an /upload that settles with status ok and body result.
UploadResolves(i, ok, result) ==
    /\ session = "library"
    /\ i \in 1..Len(net) /\ net[i] = "upload"
    /\ IF ok
       THEN IF uploadMessageThrows(result)
            THEN /\ showStatus("uploadStatus",
                               "Upload failed: " \o TypeErrorMessage("concept"), "error")
                 /\ net' = Settled(i)
            ELSE /\ clearTimers["uploadStatus"] < MaxStatusTimers
                 /\ showStatus("uploadStatus", UploadSuccessMessage(result), "success")
                 /\ net' = loadStats(Settled(i))
       ELSE /\ showStatus("uploadStatus", "Error: " \o ShowText(result, "error"), "error")
            /\ net' = Settled(i)
    /\ UNCHANGED <<session, viewerVars, askVars, questionInput, askButton, answerContent,
                   sourcesContent, confidenceContent, statsDetails>>

(***************************************************************************)
(* Question-answering page: /clear.                                        *)
(***************************************************************************)
ClearBodies == {EmptyObject, [error |-> BackendError]}

\* clearDatabase up to its await, the user having confirmed the dialog.
\* (A dismissed dialog returns without any effect.)
ClearDatabase ==
    /\ session = "library"
    /\ Len(net) < MaxInFlight
    /\ showStatus("actionStatus", "Clearing database...", "info")
    /\ net' = Append(net, "clear")
    /\ UNCHANGED <<session, viewerVars, askVars, questionInput, askButton, answerContent,
                   sourcesContent, confidenceContent, statsDetails>>

\* The i-th request is a /clear whose fetch or json() rejects.
ClearFails(i, message) ==
    /\ session = "library"
    /\ i \in 1..Len(net) /\ net[i] = "clear"
    /\ net' = Settled(i)
    /\ showStatus("actionStatus", "Clear operation failed: " \o message, "error")
    /\ UNCHANGED <<session, viewerVars, askVars, questionInput, askButton, answerContent,
                   sourcesContent, confidenceContent, statsDetails>>

\* The i-th request is a /clear that settles with status ok and body result.
ClearResolves(i, ok, result) ==
    /\ session = "library"
    /\ i \in 1..Len(net) /\ net[i] = "clear"
    /\ IF ok
       THEN /\ clearTimers["actionStatus"] < MaxStatusTimers
            /\ showStatus("actionStatus", "Database cleared successfully", "success")
            /\ net' = loadStats(Settled(i))
            /\ answerContent' = Placeholder("Your answers will appear here...")
            /\ sourcesContent' = Placeholder("Source information will appear here...")
            /\ confidenceContent' = Placeholder("Confidence scores will appear here...")
            /\ newestShown' = FALSE
       ELSE /\ showStatus("actionStatus", "Error: " \o ShowText(result, "error"), "error")
            /\ net' = Settled(i)
            /\ UNCHANGED <<answerContent, sourcesContent, confidenceContent,
                           newestShown>>
    /\ UNCHANGED newestPending
    /\ UNCHANGED <<session, viewerVars, questionInput, askButton, statsDetails>>

(***************************************************************************)
(* The pages after DOMContentLoaded, and the specifications.               *)
(***************************************************************************)
\* The question-answering page: the markup's initial panes, and the
\* loadStats() of the DOMContentLoaded listener in flight.
QAInit ==
    /\ questionInput = ""
    /\ askButton = [disabled |-> FALSE, html |-> "Ask"]
    /\ status = [e \in StatusElements |-> [text |-> "", cls |-> ""]]
    /\ clearTimers = [e \in StatusElements |-> 0]
    /\ answerContent = Placeholder("Your answers will appear here...")
    /\ sourcesContent = Placeholder("Source information will appear here...")
    /\ confidenceContent = Placeholder("Confidence scores will appear here...")
    /\ statsDetails = StatsPlaceholder("")
    /\ net = loadStats(<<>>)
    /\ newestPending = FALSE
    /\ newestShown = FALSE

\* The auto-hide timeouts and the /stats responses, common to both uses of
\* the page, the /stats bodies ranging over bodies.
QANetNext(bodies) ==
    \/ \E e \in StatusElements : StatusTimerFires(e)
    \/ \E i \in 1..MaxInFlight : StatsFails(i)
    \/ \E i \in 1..MaxInFlight, stats \in bodies : StatsResolves(i, stats)

\* The page used to ask questions.
QueryNext ==
    \/ \E q \in Questions : TypeQuestion(q)
    \/ ClickAsk
    \/ PressEnter
    \/ \E q \in SampleQuestions : SetQuestion(q)
    \/ \E i \in 1..MaxInFlight, m \in TransportErrors : AskFails(i, m)
    \/ \E i \in 1..MaxInFlight, result \in AskBodies : AskResolves(i, TRUE, result)
    \/ \E i \in 1..MaxInFlight, result \in FailureBodies : AskResolves(i, FALSE, result)
    \/ QANetNext({FullStats, [error |-> BackendError]})

\* The page used to upload documents and to clear the database.
LibraryNext ==
    \/ \E file \in Files : SelectFile(file)
    \/ \E i \in 1..MaxInFlight, m \in TransportErrors : UploadFails(i, m)
    \/ \E i \in 1..MaxInFlight, result \in UploadBodies : UploadResolves(i, TRUE, result)
    \/ \E i \in 1..MaxInFlight, result \in FailureBodies : UploadResolves(i, FALSE, result)
    \/ ClearDatabase
    \/ \E i \in 1..MaxInFlight, m \in TransportErrors : ClearFails(i, m)
    \/ \E i \in 1..MaxInFlight, result \in ClearBodies : ClearResolves(i, TRUE, result)
    \/ \E i \in 1..MaxInFlight, result \in FailureBodies : ClearResolves(i, FALSE, result)
    \/ QANetNext(StatsBodies)

\* The viewer page alone.  (The variables of the page that is not loaded
\* keep their initial values.)
InitViewer == session = "viewer" /\ ViewerInit /\ QAInit

SpecViewer == InitViewer /\ [][ViewerNext]_vars

\* The question-answering page.  Its handlers fall in two groups that share
\* only the three result panes (written by displayResults, reset by
\* clearDatabase) and the /stats request: asking questions, and managing
\* the library (upload, clear).  A behaviour exercises one group.
InitQuery == session = "query" /\ ViewerInitAt(0, 0) /\ QAInit

SpecQuery == InitQuery /\ [][QueryNext]_vars

\* The question-answering page, used to manage the library.
InitLibrary == session = "library" /\ ViewerInitAt(0, 0) /\ QAInit

SpecLibrary == InitLibrary /\ [][LibraryNext]_vars

\* The two trigger controls, askButton and analyzeBtn: the viewer page, or
\* the question-answering page used to ask questions.
InitControls == InitViewer \/ InitQuery

ControlsNext == ViewerNext \/ QueryNext

SpecControls == InitControls /\ [][ControlsNext]_vars

\* The repository: one of the two pages is loaded.
Init == InitViewer \/ InitQuery \/ InitLibrary

Next == ViewerNext \/ QueryNext \/ LibraryNext

Spec == Init /\ [][Next]_vars

(***************************************************************************)
(* update3DModel over a wide set of names: every keyword in mixed case,    *)
(* alone and next to every other fragment.                                 *)
(***************************************************************************)
Fragments ==
    {"Mitochondria", "CHLOROPLAST", "Ribosome", "Endoplasmic", "ER", "Golgi",
     "lysoSome", "Membrane", "Wall", "Nucleus", "Peroxisome", "Cell ", "x"}

Names == Fragments \cup {a \o b : a \in Fragments, b \in Fragments}

CallUpdate3DModel(arg) ==
    /\ session = "mesh"
    /\ meshCount < MaxMeshes
    /\ update3DModel(arg)
    /\ UNCHANGED <<session, qaVars, animationFrame, cameraAspect, rendererSize, resizeTimers,
                   currentAnalysis, explorerShown, modelTitle, reportGrid,
                   analyzeBtn, analyzeInFlight, lastAlert, tabContent>>

MeshInit ==
    /\ session = "mesh"
    /\ ViewerInitAt(1, 1)
    /\ QAInit

MeshNext == \E arg \in {Str(n) : n \in Names} \cup {Undefined} : CallUpdate3DModel(arg)

SpecMesh == MeshInit /\ [][MeshNext]_vars

(***************************************************************************)
(* Claims.                                                                 *)
(***************************************************************************)

\* C1: the scene holds at most one organelle mesh, every attached mesh is
\* the current one, and once the latest update3DModel call has completed
\* exactly one mesh is attached: the one that call built (the newest).
C1_SingleMesh ==
    /\ Cardinality(sceneMeshes) <= 1
    /\ sceneMeshes \subseteq {currentMesh.id}
    /\ IsString(organelleName) =>
          /\ currentMesh.id = meshCount
          /\ sceneMeshes = {meshCount}

C1_Witness ==
    /\ meshCount >= 2
    /\ IsString(organelleName)
    /\ sceneMeshes = {meshCount}

\* The keyword table of the data model, in priority order, with the recipe
\* each keyword selects.
KeywordOrder ==
    <<"mitochondria", "chloroplast", "ribosome", "endoplasmic", "er", "golgi",
      "lysosome", "membrane", "wall">>

KeywordRecipe ==
    <<"mitochondria", "chloroplast", "ribosome", "er", "er", "golgi",
      "lysosome", "membrane", "wall">>

\* c is the lower-case letter kc or its capital.
SameLetter(c, kc) ==
    \/ c = kc
    \/ \E i \in 1..Len(LowerCase) :
          SubSeq(LowerCase, i, i) = kc /\ SubSeq(UpperCase, i, i) = c

\* s contains keyword k as a substring, case-insensitively.
ContainsKeyword(s, k) ==
    \E i \in 1..(Len(s) - Len(k) + 1) :
       \A j \in 1..Len(k) :
          SameLetter(SubSeq(s, i + j - 1, i + j - 1), SubSeq(k, j, j))

FirstKeywordRecipe(s) ==
    LET hits == {i \in 1..Len(KeywordOrder) : ContainsKeyword(s, KeywordOrder[i])}
    IN  IF hits = {} THEN "nucleus"
        ELSE KeywordRecipe[CHOOSE i \in hits : \A j \in hits : i <= j]

\* C2: for every name string, the mesh update3DModel builds follows the
\* recipe of the first keyword, in priority order, that the name contains
\* case-insensitively; a name with no keyword gets the nucleus recipe, and
\* the call never fails (a mesh is built and attached).
C2_FirstKeywordWins ==
    IsString(organelleName) =>
       /\ currentMesh.id = meshCount
       /\ currentMesh.id \in sceneMeshes
       /\ currentMesh.recipe = FirstKeywordRecipe(organelleName.s)

C2_Witness ==
    /\ organelleName = Str("WallMembrane")
    /\ currentMesh.recipe = "membrane"
    /\ currentMesh.id \in sceneMeshes

\* C3: the mesh carries the glow shell if and only if its recipe is not the
\* wall recipe.
C3_GlowIffNotWallRecipe ==
    currentMesh.id # 0 => (currentMesh.glow <=> currentMesh.recipe # "wall")

\* C4: a resize path that measures a zero width or height changes neither
\* camera.aspect nor the renderer size.
C4_ResizeNoOpOnZero ==
    [][\A w \in Dims, h \in Dims :
          ((w = 0 \/ h = 0) /\ (WindowResize(w, h) \/ ResizeTimerFires(w, h)))
          => UNCHANGED <<cameraAspect, rendererSize>>]_vars

\* C5: a 2xx /ask response with n >= 1 answers and m < n sources renders
\* without error: all n answers appear, answer i <= m with the chunk_type of
\* sources[i], answer i > m with the type "unknown", and the query status
\* reports the n results.
C5_ShortSourcesRenderUnknown ==
    [][\A i \in 1..MaxInFlight, result \in AskBodies :
          (/\ NonEmpty(result, "answers")
           /\ Has(result, "sources")
           /\ Len(result.sources) < Len(result.answers)
           /\ AskResolves(i, TRUE, result))
          => /\ Len(answerContent'.items) = Len(result.answers)
             /\ \A k \in 1..Len(result.answers) :
                   /\ answerContent'.items[k].answer = result.answers[k]
                   /\ answerContent'.items[k].type =
                         IF k <= Len(result.sources)
                         THEN result.sources[k].chunk_type
                         ELSE "unknown"
             /\ status'["queryStatus"] =
                   [text |-> "Found " \o ToString(Len(result.answers))
                                \o " relevant results",
                    cls |-> "status-success"]]_vars

C5_Witness ==
    /\ Len(answerContent.items) = 2
    /\ Len(sourcesContent.items) = 1
    /\ answerContent.items[1].type = "concept"
    /\ answerContent.items[2].type = "unknown"
    /\ status["queryStatus"].text = "Found 2 relevant results"

\* C6: a 2xx response of /ask, /upload or /api/analyze that lacks an
\* expected field (and carries no error field) never raises a failure
\* message: no error status for /ask and /upload, no alert for the analysis.
C6_MissingFieldsDegrade ==
    [][/\ \A i \in 1..MaxInFlight, result \in AskBodies \cup UploadBodies :
             ~Has(result, "error") =>
                /\ AskResolves(i, TRUE, result)
                   => status'["queryStatus"].cls # "status-error"
                /\ UploadResolves(i, TRUE, result)
                   => status'["uploadStatus"].cls # "status-error"
       /\ \A data \in AnalysisBodies :
             (~Has(data, "error") /\ AnalyzeResolves(data))
             => lastAlert' = lastAlert]_vars

\* C7: a 2xx /stats response without an error field is rendered (no
\* placeholder, no exception), and every count whose field is absent shows
\* "0": the three chunk-type counts when chunk_type_distribution is empty or
\* absent, the total when total_chunks is absent, the number of sources when
\* source_distribution is absent.
C7_StatsDefaultToZero ==
    [][\A i \in 1..MaxInFlight, stats \in StatsBodies :
          (~Has(stats, "error") /\ StatsResolves(i, stats))
          => /\ statsDetails'.placeholder = ""
             /\ (~Has(stats, "chunk_type_distribution")
                    \/ DOMAIN stats.chunk_type_distribution = {})
                => /\ statsDetails'.concept = "0"
                   /\ statsDetails'.question = "0"
                   /\ statsDetails'.application = "0"
             /\ ~Has(stats, "total_chunks") => statsDetails'.total = "0"
             /\ ~Has(stats, "source_distribution") => statsDetails'.sources = "0"]_vars

C7_Witness ==
    statsDetails = [placeholder |-> "", total |-> "0", concept |-> "0",
                    question |-> "0", application |-> "0", sources |-> "0"]

SizeError == [text |-> "File size must be less than 50MB", cls |-> "status-error"]
FileTypeError == [text |-> "Please select a PDF file", cls |-> "status-error"]

\* C8 as claimed: every file above 50MB, whatever its type, gets the size
\* error and no request.
C8_OversizedGetsSizeError ==
    [][\A file \in Files :
          (file.size > MaxFileSize /\ SelectFile(file))
          => /\ status'["uploadStatus"] = SizeError
             /\ net' = net]_vars

\* C8 as amended: every file above 50MB is rejected on the client with no
\* request issued; a PDF gets the size error, a file of another type gets
\* the file-type error, which is checked first.
C8_OversizedIsRejected ==
    [][\A file \in Files :
          (file.size > MaxFileSize /\ SelectFile(file))
          => /\ net' = net
             /\ status'["uploadStatus"] =
                   IF file.type = "application/pdf" THEN SizeError ELSE FileTypeError]_vars

C8_Witness ==
    /\ status["uploadStatus"] = SizeError
    /\ \A i \in 1..Len(net) : net[i] # "upload"

\* C9: whenever a response of any endpoint carries an error field, with a
\* 2xx status or not, the place that reports that request to the user (its
\* status element, the statistics pane, the analysis alert) contains the
\* backend's error text.
C9_BackendErrorShownVerbatim ==
    [][/\ \A i \in 1..MaxInFlight, ok \in BOOLEAN,
             result \in AskBodies \cup UploadBodies \cup StatsBodies \cup ClearBodies :
          Has(result, "error") =>
             /\ AskResolves(i, ok, result)
                => includes(status'["queryStatus"].text, result.error)
             /\ UploadResolves(i, ok, result)
                => includes(status'["uploadStatus"].text, result.error)
             /\ ClearResolves(i, ok, result)
                => includes(status'["actionStatus"].text, result.error)
             /\ (ok /\ StatsResolves(i, result))
                => includes(statsDetails'.placeholder, result.error)
       /\ \A data \in AnalysisBodies :
             (Has(data, "error") /\ AnalyzeResolves(data))
             => includes(lastAlert', data.error)]_vars

AskInFlight == \E i \in 1..Len(net) : net[i] = "ask"

\* A step in which an /ask request settles.
AskSettles == \E i \in 1..Len(net) : net[i] = "ask" /\ net' = Settled(i)

\* A step in which the /api/analyze request settles.
AnalyzeSettles == analyzeInFlight /\ ~analyzeInFlight'

\* Every step that settles a request returns its control to the idle state.
SettlingReenables ==
    /\ AskSettles => askButton' = [disabled |-> FALSE, html |-> "Ask"]
    /\ AnalyzeSettles =>
          /\ ~analyzeBtn'.disabled
          /\ analyzeBtn'.text = "Analyze Images"

\* C10 as claimed: the step that settles a request re-enables its control,
\* and a control stays disabled while a request of its own is in flight.
C10_DisabledUntilOwnRequestSettles ==
    /\ [][SettlingReenables]_vars
    /\ [](AskInFlight => askButton.disabled)
    /\ [](analyzeInFlight => analyzeBtn.disabled)

\* C10 as amended: the step that settles a request re-enables its control,
\* whatever the outcome; analyzeBtn stays disabled while its request is in
\* flight; askButton, once disabled, is re-enabled only by a step that
\* settles an /ask request, which may be an overlapping one started with
\* the Enter key rather than the request that disabled it.
C10_ReenabledBySettling ==
    /\ [][SettlingReenables]_vars
    /\ [](analyzeInFlight => analyzeBtn.disabled)
    /\ [][(askButton.disabled /\ ~askButton'.disabled) => AskSettles]_vars
    /\ [][(~askButton.disabled /\ askButton'.disabled)
             => net' = Append(net, "ask")]_vars

C10_Witness ==
    /\ ~askButton.disabled
    /\ AskInFlight
    /\ status["queryStatus"].text = "Search failed: " \o TypeErrorMessage("0")

\* The /ask requests in flight.
AsksInFlight == Len(SelectSeq(net, LAMBDA r : r = "ask"))

\* C11 as claimed: while an /ask request is in flight, askButton is disabled.
C11_DisabledWhileInFlight == AskInFlight => askButton.disabled

\* C11 as amended: the step that issues an /ask request leaves askButton
\* disabled, and the button stays disabled until the first step that
\* settles an /ask request; that step re-enables it even when another
\* /ask request, issued meanwhile by the Enter key or by setQuestion, is
\* still in flight.  With one /ask request in flight and none settled since
\* it was issued, the button is disabled.
C11_DisabledUntilFirstSettle ==
    /\ [][net' = Append(net, "ask") => askButton'.disabled]_vars
    /\ [][(askButton.disabled /\ askButton'.disabled # askButton.disabled)
             => (AskSettles /\ AsksInFlight' = AsksInFlight - 1)]_vars
    /\ [][(askButton.disabled /\ AskSettles) => ~askButton'.disabled]_vars
    /\ [](askButton.disabled => AskInFlight)

C11_Witness ==
    /\ AsksInFlight = 2
    /\ askButton.disabled
    /\ questionInput \in SampleQuestions

\* A response that reports a failure: a non-2xx status, or a body with an
\* error field.
ReportsFailure(ok, result) == ~ok \/ Has(result, "error")

\* C12: a user action issues at most one request; a validation failure
\* issues none; and the step in which a request fails (its fetch or json()
\* rejects, or its response reports a failure) only removes that request:
\* it issues no request of any kind.
C12_NoRequestAfterFailure ==
    [][/\ Len(net') <= Len(net) + 1
       /\ (analyzeInFlight /\ UploadFiles) => FALSE
       /\ \A file \in Files :
             ((file.type # "application/pdf" \/ file.size > MaxFileSize)
                 /\ SelectFile(file)) => net' = net
       /\ (trim(questionInput) = "" /\ (ClickAsk \/ PressEnter)) => net' = net
       /\ \A i \in 1..MaxInFlight :
             /\ StatsFails(i) => net' = Settled(i)
             /\ \A m \in TransportErrors :
                   (AskFails(i, m) \/ UploadFails(i, m) \/ ClearFails(i, m))
                   => net' = Settled(i)
             /\ \A ok \in BOOLEAN,
                   result \in AskBodies \cup UploadBodies \cup ClearBodies :
                   (/\ ReportsFailure(ok, result)
                    /\ \/ AskResolves(i, ok, result)
                       \/ UploadResolves(i, ok, result)
                       \/ ClearResolves(i, ok, result))
                   => net' = Settled(i)
       /\ (AnalyzeFails \/ \E data \in AnalysisBodies :
                               Has(data, "error") /\ AnalyzeResolves(data))
          => ~analyzeInFlight']_vars

\* A step in which the /api/analyze request fails: its fetch or json()
\* rejects, its body reports an error, or handling its body raises.
AnalyzeFailure ==
    \/ AnalyzeFails
    \/ \E data \in AnalysisBodies :
          /\ Has(data, "error") \/ handleAnalysisResultThrows(data)
          /\ AnalyzeResolves(data)

\* C13: the next animation frame is always scheduled; every tick rotates
\* the current mesh by the two fixed increments; and a failed request
\* leaves the mesh that was attached before it attached and current.
C13_SceneSurvivesFailure ==
    /\ []animationFrame
    /\ [][(Animate /\ currentMesh.id # 0)
             => currentMesh' = Rotated(currentMesh)]_vars
    /\ [][(AnalyzeFailure /\ currentMesh.id \in sceneMeshes)
             => /\ currentMesh'.id = currentMesh.id
                /\ currentMesh.id \in sceneMeshes']_vars

\* currentMesh is null, or is attached to the scene and follows the recipe
\* of currentAnalysis.organelle.name.
MeshMatchesAnalysis ==
    \/ currentMesh.id = 0
    \/ /\ currentMesh.id \in sceneMeshes
       /\ Has(currentAnalysis, "organelle")
       /\ Has(currentAnalysis.organelle, "name")
       /\ currentMesh.recipe =
             selectRecipe(toLowerCase(currentAnalysis.organelle.name.s))

\* C14: handleAnalysisResult applies the whole update or nothing.  When it
\* returns early or raises, currentAnalysis, the attached mesh, the panel
\* visibility and the report grid are unchanged; otherwise all five parts
\* come from the same response; and between handlers currentMesh is null or
\* is attached and built from currentAnalysis.organelle.name.
C14_AllOrNothing ==
    /\ [][\A data \in AnalysisBodies :
             AnalyzeResolves(data) =>
                IF ReturnsEarly(data) \/ handleAnalysisResultThrows(data)
                THEN UNCHANGED <<currentAnalysis, currentMesh, sceneMeshes,
                                 explorerShown, reportGrid>>
                ELSE /\ currentAnalysis' = data.results[1]
                     /\ modelTitle' = data.results[1].organelle.name
                     /\ tabContent' = data.results[1].organelle.function
                     /\ currentMesh'.id \notin sceneMeshes
                     /\ sceneMeshes' = {currentMesh'.id}
                     /\ explorerShown'
                     /\ Len(reportGrid') = Len(data.results)]_vars
    /\ []MeshMatchesAnalysis

\* The classes showStatus gives an element.
ShownClasses == {"status-error", "status-info", "status-success"}

\* C15: an error or info message stays in its element until the next
\* showStatus call on that element: a step that changes the element while
\* it shows such a message is a showStatus call, never an auto-clear.
C15_ErrorAndInfoStay ==
    [][\A e \in StatusElements :
          (status[e].cls \in {"status-error", "status-info"}
              /\ status'[e] # status[e])
          => status'[e].cls \in ShownClasses]_vars

\* C16: once every /ask request has resolved, what the panes and the query
\* status show (here: a rendered result with its success status) is the
\* response to the most recently submitted question.
C16_LatestQuestionShown ==
    (AsksInFlight = 0 /\ status["queryStatus"].cls = "status-success")
    => newestShown

====
